---- MODULE Spec2Model ----
(***************************************************************************)
(* gobuffalo/envy: an in-memory view of the process environment.           *)
(*                                                                         *)
(* The sources hold two engines with the same operations:                  *)
(*   impl = "Env"          type Env (unnamed/part_000:19-249), a           *)
(*                         syncx.StringMap behind the receiver e;          *)
(*   impl = "Environment"  type Environment (unnamed/part_000:275-497)     *)
(*                         over envMap (env_map.go), reached through the   *)
(*                         package-level functions of envy.go:97-206 and   *)
(*                         the package variable env.                       *)
(* A process links one of them; Init chooses which.                        *)
(*                                                                         *)
(* Strings are sequences of characters, so that strings.Split and          *)
(* strings.TrimSpace are computed and not assumed.  A variable name is a   *)
(* one-token sequence such as <<"GOPATH">>.                                *)
(***************************************************************************)
EXTENDS Integers, Sequences, FiniteSets, TLC

VARIABLES
    impl,   \* which engine the process links: "Env" or "Environment"
    os,     \* the process environment (os.Environ / Getenv / Setenv)
    heap,   \* the sync.Map objects: map id -> contents
    env,    \* the engine object: [pairs |-> map id or Nil, goPath |-> string]
    stack,  \* the active Temp calls, outermost first: their saved oenv
    bound,  \* the receiver copy the method values Get, MustGet, Map hold
    held,   \* the mapping the caller got from Map(): a map id or Nil
    scan,   \* the Range of a Map() call that has not returned yet
    last    \* the last completed call: its name, arguments and results

vars == <<impl, os, heap, env, stack, bound, held, scan, last>>

----------------------------------------------------------------------------
(* Bounds of the model *)

\* Temp calls that may be nested inside one another.
MaxDepth == 1

----------------------------------------------------------------------------
(* Strings *)

EmptyStr == <<>>
EQ == "="
NL == "\n"

GOPATH == <<"GOPATH">>
GO_ENV == <<"GO_ENV">>
KEY_K  == <<"K">>
KEY_J  == <<"J">>

\* Names os.Setenv rejects: the empty name and a name holding '='.
BadKeys == {EmptyStr, <<"K", EQ>>}

\* The names callers use as keys.  A map can hold any of them; the OS
\* environment never holds one of BadKeys.
Keys == {GOPATH, GO_ENV, KEY_K, KEY_J} \cup BadKeys

StrA   == <<"a">>
StrB   == <<"b">>
StrTest == <<"t", "e", "s", "t">>

\* What `go env GOPATH` prints when it succeeds.
GoEnvOut == <<"a", NL>>

\* Values callers pass to Set and MustSet, and defaults they pass to Get.
SetVals  == {EmptyStr, StrA}
Defaults == {EmptyStr, StrA}

\* The keys callers write with Set and MustSet, and the keys they read.
SetKeys  == {KEY_K}
MustSetInputs == (SetKeys \X SetVals) \cup (BadKeys \X {StrA})
ReadKeys == {KEY_K, KEY_J}

\* Markers: a variable the OS does not define, a key a map does not hold.
\* They are sequences too, of one token no string holds.
Unset  == <<"<unset>">>
Absent == <<"<absent>">>
NoArg  == <<"<none>">>

\* The nil *envMap.
Nil == 0
MapIds == 1..(MaxDepth + 2)

EmptyMap == [k \in Keys |-> Absent]

----------------------------------------------------------------------------
(* strings *)

\* Index of the first sep in s, or 0.
IndexOf(s, sep) ==
    IF \E i \in 1..Len(s) : s[i] = sep
    THEN CHOOSE i \in 1..Len(s) : s[i] = sep /\ \A j \in 1..(i - 1) : s[j] # sep
    ELSE 0

\* strings.Split(s, sep): the fields of s between the occurrences of sep.
RECURSIVE Split(_, _)
Split(s, sep) ==
    LET i == IndexOf(s, sep)
    IN  IF i = 0 THEN <<s>>
        ELSE <<SubSeq(s, 1, i - 1)>> \o Split(SubSeq(s, i + 1, Len(s)), sep)

IsSpace(c) == c \in {" ", NL, "\t", "\r"}

\* strings.TrimSpace(s): s without its leading and trailing white space.
RECURSIVE TrimSpace(_)
TrimSpace(s) ==
    IF s = <<>> THEN s
    ELSE IF IsSpace(s[1]) THEN TrimSpace(Tail(s))
    ELSE IF IsSpace(s[Len(s)]) THEN TrimSpace(SubSeq(s, 1, Len(s) - 1))
    ELSE s

----------------------------------------------------------------------------
(* The OS environment: os[k] is the value of k, or Unset *)

\* os.Getenv(key): the value, "" when the variable is not set.
Getenv(o, k) == IF o[k] = Unset THEN EmptyStr ELSE o[k]

\* os.Setenv rejects an empty name and a name holding '=' (EINVAL).
ValidName(k) == Len(k) > 0 /\ \A i \in 1..Len(k) : k[i] # EQ

\* os.Setenv(key, value): the error and the environment after the call.
Setenv(o, k, v) ==
    IF ValidName(k) THEN [err |-> FALSE, os |-> [o EXCEPT ![k] = v]]
    ELSE [err |-> TRUE, os |-> o]

\* os.Environ(): the "KEY=VALUE" strings of the variables that are set.
Environ(o) == {k \o <<EQ>> \o o[k] : k \in {x \in Keys : o[x] # Unset}}

----------------------------------------------------------------------------
(* envMap (env_map.go) and syncx.StringMap: m[k] is the value, or Absent *)

MapLoad(m, k) ==
    IF m[k] = Absent THEN [s |-> EmptyStr, ok |-> FALSE]
    ELSE [s |-> m[k], ok |-> TRUE]

MapStore(m, k, v) == [m EXCEPT ![k] = v]

\* sync.Map.LoadOrStore: the existing value, else store v and return it.
MapLoadOrStore(m, k, v) ==
    IF m[k] = Absent THEN [s |-> v, m |-> MapStore(m, k, v)]
    ELSE [s |-> m[k], m |-> m]

\* The pairs Range visits.
MapRange(m) == {<<k, m[k]>> : k \in {x \in Keys : m[x] # Absent}}

\* Range over src storing every pair into dst (Env.Temp, Environment.Clone).
RECURSIVE CopyInto(_, _)
CopyInto(dst, pairs) ==
    IF pairs = {} THEN dst
    ELSE LET p == CHOOSE p \in pairs : TRUE
         IN  CopyInto(MapStore(dst, p[1], p[2]), pairs \ {p})

----------------------------------------------------------------------------
(* What the calls read from outside the process *)

\* The outcomes of `go env GOPATH` (exec.Command(...).Output()).
GoEnvResults == {[ok |-> FALSE, out |-> EmptyStr], [ok |-> TRUE, out |-> GoEnvOut]}

\* One call's view of the outside: is the flag test.v defined, what does
\* `go env GOPATH` answer, does packages.Load find a package, and is there
\* a default file .env in the working directory.
Outside == [testv : BOOLEAN, gp : GoEnvResults, pkgs : BOOLEAN, dotenv : BOOLEAN]

\* The record of a call keeps whether test.v was defined when it was made.
TestRun == <<"<test.v>">>
Signal(x) == IF x.testv THEN TestRun ELSE NoArg

\* The views that differ for a call of engine i with these files in the OS
\* environment o: Env never calls packages.Load, .env is read only when no
\* file is given, test.v matters only when GO_ENV is empty and
\* `go env GOPATH` is run only when GOPATH is empty (no env file below
\* defines GO_ENV or GOPATH).  An answer that cannot matter is fixed to
\* FALSE.
OutsideOf(i, files, o) ==
    {x \in Outside : /\ (i = "Env" => x.pkgs)
                     /\ (o[GO_ENV] \notin {Unset, EmptyStr} => ~x.testv)
                     /\ (o[GOPATH] \notin {Unset, EmptyStr} => ~x.gp.ok)
                     /\ (files # <<>> => ~x.dotenv)}

\* Errors, as the caller tells them apart; NoErr is nil.
NoErr == "nil"
ENOENT == "no such file"
EINVAL == "invalid argument"
EPARSE == "parse error"
EPKGS == "could not find any packages"
ENOTFOUND == "could not find ENV var"

\* The env files of the working directory.
DotEnv == ".env"

ParsedFile(kv) == [kind |-> "ok", kv |-> kv]

\* The file system: what reading and parsing the file gives.
ReadFile(name, x) ==
    CASE name = DotEnv ->
            IF x.dotenv THEN ParsedFile([EmptyMap EXCEPT ![KEY_K] = StrA])
            ELSE [kind |-> "missing"]
      [] name = "a.env" -> ParsedFile([EmptyMap EXCEPT ![KEY_K] = StrA])
      [] name = "b.env" ->
            ParsedFile([EmptyMap EXCEPT ![KEY_K] = StrB, ![KEY_J] = StrA])
      [] name = "bad.env" -> [kind |-> "malformed"]
      [] OTHER -> [kind |-> "missing"]

\* os.Stat(file): nil, or the error for a file that is not there.
Stat(name, x) == IF ReadFile(name, x).kind = "missing" THEN ENOENT ELSE NoErr

\* godotenv.Load for godotenv.Overload: a variable the OS environment already
\* defines keeps its value.
RECURSIVE SetAll_keepsExisting(_, _)
SetAll_keepsExisting(o, pairs) ==
    IF pairs = {} THEN o
    ELSE LET p == CHOOSE p \in pairs : TRUE
         IN  SetAll_keepsExisting(IF o[p[1]] = Unset THEN Setenv(o, p[1], p[2]).os ELSE o,
                                  pairs \ {p})

\* godotenv's loadFile(filename, overload = true): every variable of the file
\* is set in the OS environment, also over a value that is already there.
RECURSIVE SetAll(_, _)
SetAll(o, pairs) ==
    IF pairs = {} THEN o
    ELSE LET p == CHOOSE p \in pairs : TRUE
         IN  SetAll(Setenv(o, p[1], p[2]).os, pairs \ {p})

OverloadFile(o, name, x) ==
    LET f == ReadFile(name, x)
    IN  CASE f.kind = "missing" -> [err |-> ENOENT, os |-> o]
          [] f.kind = "malformed" -> [err |-> EPARSE, os |-> o]
          [] OTHER -> [err |-> NoErr, os |-> SetAll(o, MapRange(f.kv))]

\* godotenv.Overload(filenames...): the files in order, .env when none is
\* given, stopping at the first error.
RECURSIVE OverloadList(_, _, _)
OverloadList(o, names, x) ==
    IF names = <<>> THEN [err |-> NoErr, os |-> o]
    ELSE LET r == OverloadFile(o, Head(names), x)
         IN  IF r.err # NoErr THEN r ELSE OverloadList(r.os, Tail(names), x)

Overload(o, names, x) ==
    OverloadList(o, IF names = <<>> THEN <<DotEnv>> ELSE names, x)

----------------------------------------------------------------------------
(* type Env (unnamed/part_000:19-249) *)

\* The loop of Env.loadEnv: for each entry of os.Environ(), split it at "="
\* and store os.Getenv(pair[0]) under pair[0].
RECURSIVE Env_seed(_, _, _)
Env_seed(m, entries, o) ==
    IF entries = {} THEN m
    ELSE LET en == CHOOSE en \in entries : TRUE
             pair == Split(en, EQ)
         IN  Env_seed(MapStore(m, pair[1], Getenv(o, pair[1])), entries \ {en}, o)

\* Env.loadEnv on the map m: the OS environment and the map after it.
Env_loadEnv(o, m, x) ==
    LET m1 == IF Getenv(o, GO_ENV) = EmptyStr /\ x.testv
              THEN MapStore(m, GO_ENV, StrTest) ELSE m
        o1 == IF Getenv(o, GOPATH) = EmptyStr /\ x.gp.ok
              THEN Setenv(o, GOPATH, TrimSpace(x.gp.out)).os ELSE o
    IN  [os |-> o1, m |-> Env_seed(m1, Environ(o1), o1)]

\* Env.Reload: a new empty map, then loadEnv.
Env_ReloadValue(o, x) == Env_loadEnv(o, EmptyMap, x)

\* The loop of Env.Load with `continue` for `return err` after os.Stat: a
\* file that is not there is skipped.
RECURSIVE Env_LoadList_skipsMissing(_, _, _, _, _)
Env_LoadList_skipsMissing(o, m, fresh, files, x) ==
    IF files = <<>> THEN [err |-> NoErr, os |-> o, m |-> m, fresh |-> fresh]
    ELSE LET file == Head(files)
             st == Stat(file, x)
             ov == Overload(o, <<file>>, x)
             rl == Env_ReloadValue(ov.os, x)
         IN  IF st # NoErr THEN Env_LoadList_skipsMissing(o, m, fresh, Tail(files), x)
             ELSE IF ov.err # NoErr
                  THEN [err |-> ov.err, os |-> ov.os, m |-> m, fresh |-> fresh]
             ELSE Env_LoadList_skipsMissing(rl.os, rl.m, TRUE, Tail(files), x)

\* The loop of Env.Load over the files it was given.  fresh tells whether
\* e.env was replaced by a new map.
RECURSIVE Env_LoadList(_, _, _, _, _)
Env_LoadList(o, m, fresh, files, x) ==
    IF files = <<>> THEN [err |-> NoErr, os |-> o, m |-> m, fresh |-> fresh]
    ELSE LET file == Head(files)
             st == Stat(file, x)
             ov == Overload(o, <<file>>, x)
             rl == Env_ReloadValue(ov.os, x)
         IN  IF st # NoErr THEN [err |-> st, os |-> o, m |-> m, fresh |-> fresh]
             ELSE IF ov.err # NoErr
                  THEN [err |-> ov.err, os |-> ov.os, m |-> m, fresh |-> fresh]
             ELSE Env_LoadList(rl.os, rl.m, TRUE, Tail(files), x)

\* Env.Load calling e.Reload() whatever godotenv.Overload() returned.
Env_LoadValue_reloadsAnyway(o, m, files, x) ==
    IF files = <<>>
    THEN LET ov == Overload(o, <<>>, x)
             rl == Env_ReloadValue(ov.os, x)
         IN  [err |-> ov.err, os |-> rl.os, m |-> rl.m, fresh |-> TRUE]
    ELSE Env_LoadList(o, m, FALSE, files, x)

\* Env.Load merging what it seeded into the map it had, with no new map.
Env_LoadValue_merges(o, m, files, x) ==
    IF files = <<>>
    THEN LET ov == Overload(o, <<>>, x)
             rl == Env_ReloadValue(ov.os, x)
         IN  IF ov.err = NoErr
             THEN [err |-> NoErr, os |-> rl.os, m |-> CopyInto(m, MapRange(rl.m)),
                   fresh |-> TRUE]
             ELSE [err |-> ov.err, os |-> ov.os, m |-> m, fresh |-> FALSE]
    ELSE LET r == Env_LoadList(o, m, FALSE, files, x)
         IN  [r EXCEPT !.m = IF r.fresh THEN CopyInto(m, MapRange(r.m)) ELSE r.m]

\* Env.Load(files...).
Env_LoadValue(o, m, files, x) ==
    IF files = <<>>
    THEN LET ov == Overload(o, <<>>, x)
             rl == Env_ReloadValue(ov.os, x)
         IN  IF ov.err = NoErr
             THEN [err |-> NoErr, os |-> rl.os, m |-> rl.m, fresh |-> TRUE]
             ELSE [err |-> ov.err, os |-> ov.os, m |-> m, fresh |-> FALSE]
    ELSE Env_LoadList(o, m, FALSE, files, x)

\* New(): an Env with an empty map, Load() and then loadEnv() on it.
Env_New(o, x) ==
    LET ld == Env_LoadValue(o, EmptyMap, <<>>, x)
    IN  Env_loadEnv(ld.os, ld.m, x)

\* Env.Get with `ok && v != ""` for ok: an empty value counts as no value.
Env_GetValue_emptyIsAbsent(m, key, value) ==
    LET r == MapLoad(m, key) IN IF r.ok /\ r.s # EmptyStr THEN r.s ELSE value

\* Env.Get(key, value).
Env_GetValue(m, key, value) ==
    LET r == MapLoad(m, key) IN IF r.ok THEN r.s ELSE value

\* Env.MustGet(key).
Env_MustGetValue(m, key) ==
    LET r == MapLoad(m, key)
    IN  IF r.ok THEN [s |-> r.s, err |-> NoErr] ELSE [s |-> EmptyStr, err |-> ENOTFOUND]

----------------------------------------------------------------------------
(* type Environment (unnamed/part_000:275-497).  An Environment value is  *)
(* [nil, m, goPath]: whether pairs is nil, the contents of the map pairs  *)
(* points to, and the field goPath.  The fields Package, goMod and goBin  *)
(* are read by none of the operations below and are left out.             *)

\* &Environment{}: pairs is nil.
Environment_zero == [nil |-> TRUE, m |-> EmptyMap, goPath |-> EmptyStr]

\* The loop of Environment.loadEnv: split each entry at "=" and store
\* pair[1] under pair[0] (Go indexes from 0).
RECURSIVE Environment_seed(_, _)
Environment_seed(m, entries) ==
    IF entries = {} THEN m
    ELSE LET en == CHOOSE en \in entries : TRUE
             pair == Split(en, EQ)
         IN  Environment_seed(MapStore(m, pair[1], pair[2]), entries \ {en})

\* Environment.loadEnv on a new Environment.
Environment_loadEnv(o, x) ==
    LET complete == Getenv(o, GOPATH) = EmptyStr /\ x.gp.ok
        gp == TrimSpace(x.gp.out)
        o1 == IF complete THEN Setenv(o, GOPATH, gp).os ELSE o
    IN  [os |-> o1,
         e  |-> [nil |-> FALSE,
                 m |-> Environment_seed(EmptyMap, Environ(o1)),
                 goPath |-> IF complete THEN gp ELSE EmptyStr]]

\* New(): packages.Load, then loadEnv (loadGoMod never fails).
Environment_New(o, x) ==
    IF ~x.pkgs THEN [err |-> EPKGS, os |-> o, e |-> Environment_zero]
    ELSE LET l == Environment_loadEnv(o, x)
         IN  [err |-> NoErr, os |-> l.os, e |-> l.e]

\* Environment.Reload: (*e) = *en when New() succeeds.
Environment_ReloadValue(o, e, x) ==
    LET n == Environment_New(o, x)
    IN  IF n.err # NoErr THEN [err |-> n.err, os |-> o, e |-> e, fresh |-> FALSE]
        ELSE [err |-> NoErr, os |-> n.os, e |-> n.e, fresh |-> TRUE]

\* The loop of Environment.Load over the files it was given.
RECURSIVE Environment_LoadList(_, _, _, _, _)

\* The loop reloading the store before it returns the access error.
Environment_LoadList_reloadsOnError(o, e, fresh, files, x) ==
    IF files = <<>> THEN [err |-> NoErr, os |-> o, e |-> e, fresh |-> fresh]
    ELSE LET file == Head(files)
             st == Stat(file, x)
             ov == Overload(o, <<file>>, x)
             rl == Environment_ReloadValue(ov.os, e, x)
             back == Environment_ReloadValue(o, e, x)
         IN  IF st # NoErr
             THEN [err |-> st, os |-> back.os, e |-> back.e,
                   fresh |-> fresh \/ back.err = NoErr]
             ELSE IF ov.err # NoErr
                  THEN [err |-> ov.err, os |-> ov.os, e |-> e, fresh |-> fresh]
             ELSE IF rl.err # NoErr
                  THEN [err |-> rl.err, os |-> rl.os, e |-> e, fresh |-> fresh]
             ELSE Environment_LoadList(rl.os, rl.e, TRUE, Tail(files), x)

Environment_LoadList(o, e, fresh, files, x) ==
    IF files = <<>> THEN [err |-> NoErr, os |-> o, e |-> e, fresh |-> fresh]
    ELSE LET file == Head(files)
             st == Stat(file, x)
             ov == Overload(o, <<file>>, x)
             rl == Environment_ReloadValue(ov.os, e, x)
         IN  IF st # NoErr THEN [err |-> st, os |-> o, e |-> e, fresh |-> fresh]
             ELSE IF ov.err # NoErr
                  THEN [err |-> ov.err, os |-> ov.os, e |-> e, fresh |-> fresh]
             ELSE IF rl.err # NoErr
                  THEN [err |-> rl.err, os |-> rl.os, e |-> e, fresh |-> fresh]
             ELSE Environment_LoadList(rl.os, rl.e, TRUE, Tail(files), x)

\* Environment.Load(files...).
Environment_LoadValue(o, e, files, x) ==
    IF files = <<>>
    THEN LET ov == Overload(o, <<>>, x)
             rl == Environment_ReloadValue(ov.os, e, x)
         IN  IF ov.err # NoErr
             THEN [err |-> ov.err, os |-> ov.os, e |-> e, fresh |-> FALSE]
             ELSE [err |-> rl.err, os |-> rl.os, e |-> rl.e, fresh |-> rl.fresh]
    ELSE Environment_LoadList(o, e, FALSE, files, x)

\* The initializer of the package variable env: &Environment{} and Load().
Environment_init(o, x) == Environment_LoadValue(o, Environment_zero, <<>>, x)

\* envMap.LoadOrStore under Environment.GetOr(key, value).
Environment_GetOr(m, key, value) == MapLoadOrStore(m, key, value)

\* Environment.Get testing `s == ""` and not ok.
Environment_Get_emptyIsAbsent(m, key) ==
    LET r == MapLoad(m, key)
    IN  IF r.s # EmptyStr THEN [s |-> r.s, err |-> NoErr] ELSE [s |-> r.s, err |-> ENOTFOUND]

\* Environment.Get(key).
Environment_Get(m, key) ==
    LET r == MapLoad(m, key)
    IN  IF r.ok THEN [s |-> r.s, err |-> NoErr] ELSE [s |-> r.s, err |-> ENOTFOUND]

\* Environment.Set(key, value): the fields kept beside the map, then Store.
Environment_SetValue(e, key, value) ==
    [e EXCEPT !.goPath = IF key = GOPATH THEN value ELSE @,
              !.m = MapStore(@, key, value)]

\* Environment.Clone: a new map holding every pair Range visits.
Environment_Clone(e) ==
    [nil |-> FALSE, m |-> CopyInto(EmptyMap, MapRange(e.m)), goPath |-> e.goPath]

----------------------------------------------------------------------------
(* The state machine *)

\* The record of a completed call.
Call(op, key, val, ret, err, files) ==
    [op |-> op, key |-> key, val |-> val, ret |-> ret, err |-> err, files |-> files]

\* A call that dereferenced the nil pairs: the process panics and ends.
Panicked(op, key, val) == Call("panic", key, val, NoArg, op, <<>>)

Running == last.op # "panic"

\* The maps something other than the engine refers to: the receiver copy of
\* the method values and the mapping the caller holds.
Pinned == {bound.pairs, held} \ {Nil}

\* The maps that stay when the engine takes another one: those the active
\* Temp calls hold in their oenv, and the pinned ones.
SavedMaps(st) == {st[i].oenv.pairs : i \in 1..Len(st)} \cup Pinned

\* A new map object: the first id no reference in `live` points to.
Alloc(live) == CHOOSE i \in MapIds \ live : \A j \in MapIds \ live : i <= j

\* Garbage collection: a map no reference points to is gone.
Collect(h, live) == [i \in MapIds |-> IF i \in live THEN h[i] ELSE EmptyMap]

\* The contents of the current store; Map() returns a copy of them.
Store == IF env.pairs = Nil THEN EmptyMap ELSE heap[env.pairs]

\* The Environment value env points to.
Obj == [nil |-> env.pairs = Nil, m |-> Store, goPath |-> env.goPath]

\* The state after the engine took the value e: in a new map when fresh,
\* else in the map it already had.
Installed(e, fresh) ==
    IF e.nil THEN [heap |-> heap, env |-> [pairs |-> Nil, goPath |-> e.goPath]]
    ELSE LET id == IF fresh THEN Alloc(SavedMaps(stack)) ELSE env.pairs
         IN  [heap |-> Collect([heap EXCEPT ![id] = e.m], SavedMaps(stack) \cup {id}),
              env  |-> [pairs |-> id, goPath |-> e.goPath]]

\* The inputs of the calls.
FileLists ==
    { <<>>, <<"a.env">>, <<"a.env", "b.env">>, <<"missing.env">>,
      <<"a.env", "missing.env", "b.env">>, <<"bad.env">> }

\* Changes made to the OS environment from outside the package
\* (os.Setenv, os.Unsetenv by the program or its tests).
ExternalWrites == {<<KEY_K, StrA>>, <<KEY_K, Unset>>}

\* The OS environments a process may start in.
OsInits ==
    { [k \in Keys |-> IF k \in {GOPATH, GO_ENV} THEN StrA ELSE Unset],
      [k \in Keys |-> IF k \in {GOPATH, GO_ENV, KEY_K} THEN StrA ELSE Unset] }

EmptyHeap == [i \in MapIds |-> EmptyMap]

\* No method value was taken: the calls are made on the engine itself.
Unbound == [pairs |-> Nil, snap |-> EmptyMap]

\* No Map() call is under way.
Idle == [on |-> FALSE, seen |-> {}, must |-> {}]

\* The package initialization of engine i in the OS environment o.
Boot(i, o, x) ==
        /\ impl = i
        /\ stack = <<>>
        /\ held = Nil
        /\ scan = Idle
        /\ last = Call("init", NoArg, Signal(x), NoArg, NoErr, <<>>)
        /\ IF i = "Env"
           THEN LET n == Env_New(o, x)
                IN  /\ os = n.os
                    /\ heap = [EmptyHeap EXCEPT ![1] = n.m]
                    /\ env = [pairs |-> 1, goPath |-> EmptyStr]
           ELSE LET n == Environment_init(o, x)
                IN  /\ os = n.os
                    /\ heap = [EmptyHeap EXCEPT ![1] = n.e.m]
                    /\ env = [pairs |-> IF n.e.nil THEN Nil ELSE 1, goPath |-> n.e.goPath]

Init ==
    \E o \in OsInits, i \in {"Env", "Environment"} : \E x \in OutsideOf(i, <<>>, o) :
        Boot(i, o, x) /\ bound = Unbound

----------------------------------------------------------------------------
(* The operations of Env *)

Env_Get(key, value) ==
    /\ impl = "Env" /\ Running
    /\ last' = Call("Get", key, value, Env_GetValue(Store, key, value), NoErr, <<>>)
    /\ UNCHANGED <<impl, bound, held, scan, os, heap, env, stack>>

Env_MustGet(key) ==
    /\ impl = "Env" /\ Running
    /\ LET r == Env_MustGetValue(Store, key)
       IN  last' = Call("MustGet", key, NoArg, r.s, r.err, <<>>)
    /\ UNCHANGED <<impl, bound, held, scan, os, heap, env, stack>>

\* Env.Set going through os.Setenv, as MustSet does.
Env_Set_throughOS(key, value) ==
    /\ impl = "Env" /\ Running
    /\ os' = Setenv(os, key, value).os
    /\ heap' = [heap EXCEPT ![env.pairs] = MapStore(@, key, value)]
    /\ last' = Call("Set", key, value, NoArg, NoErr, <<>>)
    /\ UNCHANGED <<impl, bound, held, scan, env, stack>>

Env_Set(key, value) ==
    /\ impl = "Env" /\ Running
    /\ heap' = [heap EXCEPT ![env.pairs] = MapStore(@, key, value)]
    /\ last' = Call("Set", key, value, NoArg, NoErr, <<>>)
    /\ UNCHANGED <<impl, bound, held, scan, os, env, stack>>

Env_MustSet(key, value) ==
    /\ impl = "Env" /\ Running
    /\ LET r == Setenv(os, key, value)
       IN  IF r.err
           THEN /\ last' = Call("MustSet", key, value, NoArg, EINVAL, <<>>)
                /\ UNCHANGED <<os, heap>>
           ELSE /\ os' = r.os
                /\ heap' = [heap EXCEPT ![env.pairs] = MapStore(@, key, value)]
                /\ last' = Call("MustSet", key, value, NoArg, NoErr, <<>>)
    /\ UNCHANGED <<impl, bound, held, scan, env, stack>>

Env_Reload ==
    /\ impl = "Env" /\ Running
    /\ \E x \in OutsideOf(impl, <<"-">>, os) :
          \E r \in {Env_ReloadValue(os, x)} :
          \E s \in {Installed([nil |-> FALSE, m |-> r.m, goPath |-> env.goPath], TRUE)} :
              /\ os' = r.os
              /\ heap' = s.heap
              /\ env' = s.env
              /\ last' = Call("Reload", NoArg, Signal(x), NoArg, NoErr, <<>>)
    /\ UNCHANGED <<impl, bound, held, scan, stack>>

Env_Load(files) ==
    /\ impl = "Env" /\ Running
    /\ \E x \in OutsideOf(impl, files, os) :
          \E r \in {Env_LoadValue(os, Store, files, x)} :
          \E s \in {Installed([nil |-> FALSE, m |-> r.m, goPath |-> env.goPath], r.fresh)} :
              /\ os' = r.os
              /\ heap' = s.heap
              /\ env' = s.env
              /\ last' = Call("Load", NoArg, NoArg, NoArg, r.err, files)
    /\ UNCHANGED <<impl, bound, held, scan, stack>>

\* Env.Temp up to the call of f: oenv := e.env, a new map, the copy.
Env_TempTo(depth) ==
    /\ impl = "Env" /\ Running
    /\ Len(stack) < depth
    /\ LET id == Alloc(SavedMaps(stack) \cup {env.pairs})
       IN  /\ stack' = Append(stack, [oenv |-> env, snap |-> Store])
           /\ heap' = [heap EXCEPT ![id] = CopyInto(EmptyMap, MapRange(Store))]
           /\ env' = [env EXCEPT !.pairs = id]
    /\ last' = Call("Temp", NoArg, NoArg, NoArg, NoErr, <<>>)
    /\ UNCHANGED <<impl, bound, held, scan, os>>

\* Temp calls nest as deep as MaxDepth.
Env_Temp == Env_TempTo(MaxDepth)

\* A deferred function that assigns nothing: the engine keeps the copy.
Deferred_keepsCopy(frame) == env

\* A deferred function that gives back the store of before the outermost
\* Temp call.
Deferred_outermost(frame) == stack[1].oenv

\* The deferred function of Temp: the engine is given back the saved oenv.
Deferred(frame) == frame.oenv

\* What f did to the working copy, as the record of the Temp call keeps it.
Kept == <<"<kept>">>
Changed == <<"<changed>">>
Touched(frame) == IF Store = frame.snap THEN Kept ELSE Changed

\* The end of a Temp call, for both engines: the deferred function runs and
\* the working copy is dropped.
TempExit(op) ==
    /\ Running
    /\ stack # <<>>
    /\ LET frame == stack[Len(stack)]
           rest == SubSeq(stack, 1, Len(stack) - 1)
           e == Deferred(frame)
       IN  /\ stack' = rest
           /\ env' = e
           /\ heap' = Collect(heap, SavedMaps(rest) \cup {e.pairs})
           /\ last' = Call(op, NoArg, Touched(frame), NoArg, NoErr, <<>>)
    /\ UNCHANGED <<impl, bound, held, scan, os>>

\* A Temp that also puts the OS environment back to what the store was when
\* it was called.
TempReturn_restoresOS ==
    /\ Running
    /\ stack # <<>>
    /\ LET frame == stack[Len(stack)]
           rest == SubSeq(stack, 1, Len(stack) - 1)
           e == Deferred(frame)
       IN  /\ stack' = rest
           /\ env' = e
           /\ heap' = Collect(heap, SavedMaps(rest) \cup {e.pairs})
           /\ os' = [k \in Keys |-> IF frame.snap[k] = Absent THEN Unset ELSE frame.snap[k]]
           /\ last' = Call("TempReturn", NoArg, Touched(frame), NoArg, NoErr, <<>>)
    /\ UNCHANGED <<impl, bound, held, scan>>

\* f returns.
TempReturn == TempExit("TempReturn")

\* Temp with `env = oenv` as a statement after f() and no defer: a panic
\* of f skips it.
TempPanic_notDeferred ==
    /\ Running
    /\ stack # <<>>
    /\ stack' = SubSeq(stack, 1, Len(stack) - 1)
    /\ last' = Call("TempPanic", NoArg, Touched(stack[Len(stack)]), NoArg, NoErr, <<>>)
    /\ UNCHANGED <<impl, bound, held, scan, os, heap, env>>

\* f panics: the deferred function runs while the panic unwinds to the
\* caller of Temp, which recovers it.
TempPanic == TempExit("TempPanic")

----------------------------------------------------------------------------
(* The package-level functions over env *Environment (envy.go:97-206) *)

Get(key, value) ==
    /\ impl = "Environment" /\ Running
    /\ IF env.pairs = Nil
       THEN last' = Panicked("Get", key, value) /\ UNCHANGED heap
       ELSE LET r == Environment_GetOr(Store, key, value)
            IN  /\ heap' = [heap EXCEPT ![env.pairs] = r.m]
                /\ last' = Call("Get", key, value, r.s, NoErr, <<>>)
    /\ UNCHANGED <<impl, bound, held, scan, os, env, stack>>

MustGet(key) ==
    /\ impl = "Environment" /\ Running
    /\ IF env.pairs = Nil
       THEN last' = Panicked("MustGet", key, NoArg)
       ELSE LET r == Environment_Get(Store, key)
            IN  last' = Call("MustGet", key, NoArg, r.s, r.err, <<>>)
    /\ UNCHANGED <<impl, bound, held, scan, os, heap, env, stack>>

Set(key, value) ==
    /\ impl = "Environment" /\ Running
    /\ IF env.pairs = Nil
       THEN \* the fields are assigned before pairs.Store panics
            /\ env' = [env EXCEPT !.goPath = IF key = GOPATH THEN value ELSE @]
            /\ last' = Panicked("Set", key, value)
            /\ UNCHANGED heap
       ELSE LET s == Installed(Environment_SetValue(Obj, key, value), FALSE)
            IN  /\ heap' = s.heap
                /\ env' = s.env
                /\ last' = Call("Set", key, value, NoArg, NoErr, <<>>)
    /\ UNCHANGED <<impl, bound, held, scan, os, stack>>

\* ForceSet with the two writes swapped: pairs.Store, then os.Setenv.
MustSet_storeFirst(key, value) ==
    /\ impl = "Environment" /\ Running
    /\ LET r == Setenv(os, key, value)
       IN  IF env.pairs = Nil
           THEN last' = Panicked("MustSet", key, value) /\ UNCHANGED <<os, heap>>
           ELSE /\ heap' = [heap EXCEPT ![env.pairs] = MapStore(@, key, value)]
                /\ os' = r.os
                /\ last' = Call("MustSet", key, value, NoArg,
                                IF r.err THEN EINVAL ELSE NoErr, <<>>)
    /\ UNCHANGED <<impl, bound, held, scan, env, stack>>

\* MustSet is Environment.ForceSet: os.Setenv, then pairs.Store.
MustSet(key, value) ==
    /\ impl = "Environment" /\ Running
    /\ LET r == Setenv(os, key, value)
       IN  IF r.err
           THEN /\ last' = Call("MustSet", key, value, NoArg, EINVAL, <<>>)
                /\ UNCHANGED <<os, heap>>
           ELSE IF env.pairs = Nil
           THEN /\ os' = r.os
                /\ last' = Panicked("MustSet", key, value)
                /\ UNCHANGED heap
           ELSE /\ os' = r.os
                /\ heap' = [heap EXCEPT ![env.pairs] = MapStore(@, key, value)]
                /\ last' = Call("MustSet", key, value, NoArg, NoErr, <<>>)
    /\ UNCHANGED <<impl, bound, held, scan, env, stack>>

\* Reload() drops the error of Environment.Reload.
Reload ==
    /\ impl = "Environment" /\ Running
    /\ \E x \in OutsideOf(impl, <<"-">>, os) :
          \E r \in {Environment_ReloadValue(os, Obj, x)} :
          \E s \in {Installed(r.e, r.fresh)} :
              /\ os' = r.os
              /\ heap' = s.heap
              /\ env' = s.env
              /\ last' = Call("Reload", NoArg, Signal(x), NoArg, r.err, <<>>)
    /\ UNCHANGED <<impl, bound, held, scan, stack>>

Load(files) ==
    /\ impl = "Environment" /\ Running
    /\ \E x \in OutsideOf(impl, files, os) :
          \E r \in {Environment_LoadValue(os, Obj, files, x)} :
          \E s \in {Installed(r.e, r.fresh)} :
              /\ os' = r.os
              /\ heap' = s.heap
              /\ env' = s.env
              /\ last' = Call("Load", NoArg, NoArg, NoArg, r.err, files)
    /\ UNCHANGED <<impl, bound, held, scan, stack>>

\* Temp with `env = oenv` for `env = oenv.clone()`: f works on the map
\* itself.
Temp_noClone ==
    /\ impl = "Environment" /\ Running
    /\ Len(stack) < MaxDepth
    /\ stack' = Append(stack, [oenv |-> env, snap |-> Store])
    /\ last' = Call("Temp", NoArg, NoArg, NoArg, NoErr, <<>>)
    /\ UNCHANGED <<impl, bound, held, scan, os, heap, env>>

\* Temp up to the call of f: oenv := env, env = oenv.clone().
TempTo(depth) ==
    /\ impl = "Environment" /\ Running
    /\ Len(stack) < depth
    /\ IF env.pairs = Nil
       THEN last' = Panicked("Temp", NoArg, NoArg) /\ UNCHANGED <<heap, env, stack>>
       ELSE LET id == Alloc(SavedMaps(stack) \cup {env.pairs})
                c == Environment_Clone(Obj)
            IN  /\ stack' = Append(stack, [oenv |-> env, snap |-> Store])
                /\ heap' = [heap EXCEPT ![id] = c.m]
                /\ env' = [pairs |-> id, goPath |-> c.goPath]
                /\ last' = Call("Temp", NoArg, NoArg, NoArg, NoErr, <<>>)
    /\ UNCHANGED <<impl, bound, held, scan, os>>

\* Temp calls nest as deep as MaxDepth.
Temp == TempTo(MaxDepth)

----------------------------------------------------------------------------
(* A write to the OS environment that does not go through the package *)

\* A write to the OS environment that the store follows at once.
External_propagates(key, value) ==
    /\ Running
    /\ os' = [os EXCEPT ![key] = value]
    /\ heap' = [i \in MapIds |-> IF i = env.pairs
                                 THEN [heap[i] EXCEPT ![key] = IF value = Unset THEN Absent ELSE value]
                                 ELSE heap[i]]
    /\ last' = Call("external", key, value, NoArg, NoErr, <<>>)
    /\ UNCHANGED <<impl, bound, held, scan, env, stack>>

External(key, value) ==
    /\ Running
    /\ os' = [os EXCEPT ![key] = value]
    /\ last' = Call("external", key, value, NoArg, NoErr, <<>>)
    /\ UNCHANGED <<impl, bound, held, scan, heap, env, stack>>

Next ==
    \/ \E k \in ReadKeys, d \in Defaults : Env_Get(k, d)
    \/ \E k \in ReadKeys : Env_MustGet(k)
    \/ \E k \in SetKeys, v \in SetVals : Env_Set(k, v)
    \/ \E w \in MustSetInputs : Env_MustSet(w[1], w[2])
    \/ Env_Reload
    \/ \E fs \in FileLists : Env_Load(fs)
    \/ Env_Temp
    \/ \E k \in ReadKeys, d \in Defaults : Get(k, d)
    \/ \E k \in ReadKeys : MustGet(k)
    \/ \E k \in SetKeys, v \in SetVals : Set(k, v)
    \/ \E w \in MustSetInputs : MustSet(w[1], w[2])
    \/ Reload
    \/ \E fs \in FileLists : Load(fs)
    \/ Temp
    \/ TempReturn
    \/ TempPanic
    \/ \E w \in ExternalWrites : External(w[1], w[2])

Spec == Init /\ [][Next]_vars

----------------------------------------------------------------------------
(* The package-level names of the Env engine.  They are method values of   *)
(* the variable Default: `var Get = Default.Get`.  Set, MustSet, Reload,   *)
(* Load and Temp have pointer receivers, so their method values hold       *)
(* &Default and are the Env_ actions above.  Get and MustGet have value    *)
(* receivers, so their method values hold the copy of Default that was     *)
(* made when the package was initialized, and every call reads that copy.  *)

\* What the copy of Default shows.  Copying the struct copies the header of
\* its map and not the entries, and how much of the later writes to the
\* original the copy then sees depends on the map implementation of the
\* build: all of them (the entries are shared) or none of them (the entries
\* were moved since).  It never sees a map assigned to Default later.
BoundViews == {heap[bound.pairs], bound.snap}

Default_Get(key, value) ==
    /\ impl = "Env" /\ Running
    /\ bound.pairs # Nil
    /\ \E m \in BoundViews :
           last' = Call("Get", key, value, Env_GetValue(m, key, value), NoErr, <<>>)
    /\ UNCHANGED <<impl, bound, held, scan, os, heap, env, stack>>

Default_MustGet(key) ==
    /\ impl = "Env" /\ Running
    /\ bound.pairs # Nil
    /\ \E m \in BoundViews : \E r \in {Env_MustGetValue(m, key)} :
           last' = Call("MustGet", key, NoArg, r.s, r.err, <<>>)
    /\ UNCHANGED <<impl, bound, held, scan, os, heap, env, stack>>

\* `var Default = New()` followed by the method values.
InitFacade ==
    \E o \in OsInits : \E x \in OutsideOf("Env", <<>>, o) :
        /\ Boot("Env", o, x)
        /\ bound = [pairs |-> 1, snap |-> Env_New(o, x).m]

NextFacade ==
    \/ \E k \in ReadKeys, d \in Defaults : Default_Get(k, d)
    \/ \E k \in ReadKeys : Default_MustGet(k)
    \/ \E k \in SetKeys, v \in SetVals : Env_Set(k, v)
    \/ \E w \in MustSetInputs : Env_MustSet(w[1], w[2])
    \/ Env_Reload
    \/ \E fs \in FileLists : Env_Load(fs)
    \/ Env_Temp
    \/ TempReturn
    \/ TempPanic
    \/ \E w \in ExternalWrites : External(w[1], w[2])

SpecFacade == InitFacade /\ [][NextFacade]_vars

----------------------------------------------------------------------------
(* Temp while another goroutine reads.  Env.Temp is not one step for the   *)
(* other goroutine: it assigns an empty map to e.env and then stores the   *)
(* pairs of oenv into it one by one, in the order Range visits them.  The  *)
(* package function Temp of the Environment engine assigns a finished      *)
(* clone.  Nothing writes a key here, so a read that raced with the        *)
(* assignment and still saw the old map returns what a read before the     *)
(* assignment returns.                                                     *)

\* `oenv := e.env`, the deferred function and `e.env = syncx.StringMap{}`.
Env_TempSwap ==
    /\ impl = "Env" /\ Running
    /\ Len(stack) < MaxDepth
    /\ LET id == Alloc(SavedMaps(stack) \cup {env.pairs})
       IN  /\ stack' = Append(stack, [oenv |-> env, snap |-> Store])
           /\ heap' = [heap EXCEPT ![id] = EmptyMap]
           /\ env' = [env EXCEPT !.pairs = id]
    /\ last' = Call("Temp", NoArg, NoArg, NoArg, NoErr, <<>>)
    /\ UNCHANGED <<impl, bound, held, scan, os>>

\* One call of the function given to oenv.Range: `e.env.Store(k, v)` for a
\* pair that was not visited yet.
Env_TempStore(k) ==
    /\ impl = "Env" /\ Running
    /\ stack # <<>>
    /\ LET oenv == heap[stack[Len(stack)].oenv.pairs]
       IN  /\ MapLoad(oenv, k).ok
           /\ ~MapLoad(Store, k).ok
           /\ heap' = [heap EXCEPT ![env.pairs] = MapStore(@, k, MapLoad(oenv, k).s)]
    /\ UNCHANGED <<impl, bound, held, scan, os, env, stack, last>>

\* Range has visited every pair of oenv.
RangeDone ==
    impl = "Env" => \A k \in Keys : MapLoad(stack[Len(stack)].snap, k).ok => MapLoad(Store, k).ok

\* f() is called after the Range and returns.
TempLeave == stack # <<>> /\ RangeDone /\ TempReturn

NextConc ==
    \/ Env_TempSwap
    \/ \E k \in Keys : Env_TempStore(k)
    \/ Temp
    \/ TempLeave
    \/ \E k \in ReadKeys, d \in Defaults : Env_Get(k, d)
    \/ \E k \in ReadKeys : Env_MustGet(k)
    \/ \E k \in ReadKeys, d \in Defaults : Get(k, d)
    \/ \E k \in ReadKeys : MustGet(k)

SpecConc == Init /\ [][NextConc]_vars

----------------------------------------------------------------------------
(* Map() and what its caller does with the returned mapping.               *)

\* A Map that hands out the map of the store itself.
Env_Map_returnsStore ==
    /\ impl = "Env" /\ Running
    /\ held' = env.pairs
    /\ last' = Call("Map", NoArg, NoArg, NoArg, NoErr, <<>>)
    /\ UNCHANGED <<impl, bound, scan, os, heap, env, stack>>

\* Env.Map: a new map filled by Range.  The caller keeps the mapping of its
\* latest call.
Env_Map ==
    /\ impl = "Env" /\ Running
    /\ LET id == Alloc((SavedMaps(stack) \ {held}) \cup {env.pairs})
       IN  /\ heap' = [heap EXCEPT ![id] = CopyInto(EmptyMap, MapRange(Store))]
           /\ held' = id
    /\ last' = Call("Map", NoArg, NoArg, NoArg, NoErr, <<>>)
    /\ UNCHANGED <<impl, bound, scan, os, env, stack>>

\* The package function Map of the Environment engine.
Map ==
    /\ impl = "Environment" /\ Running
    /\ IF env.pairs = Nil
       THEN last' = Panicked("Map", NoArg, NoArg) /\ UNCHANGED <<heap, held>>
       ELSE LET id == Alloc((SavedMaps(stack) \ {held}) \cup {env.pairs})
            IN  /\ heap' = [heap EXCEPT ![id] = CopyInto(EmptyMap, MapRange(Store))]
                /\ held' = id
                /\ last' = Call("Map", NoArg, NoArg, NoArg, NoErr, <<>>)
    /\ UNCHANGED <<impl, bound, scan, os, env, stack>>

\* What the caller writes into the mapping it holds: `m[k] = v`, or
\* `delete(m, k)` when v is Absent.
CallerWrites == (SetKeys \cup {GOPATH}) \X (SetVals \cup {Absent})

Caller_Write(k, v) ==
    /\ Running
    /\ held # Nil
    /\ heap' = [heap EXCEPT ![held] = [@ EXCEPT ![k] = v]]
    /\ last' = Call("write", k, v, NoArg, NoErr, <<>>)
    /\ UNCHANGED <<impl, bound, held, scan, os, env, stack>>

NextMap ==
    \/ Env_Map
    \/ Map
    \/ \E w \in CallerWrites : Caller_Write(w[1], w[2])
    \/ \E k \in ReadKeys, d \in Defaults : Env_Get(k, d)
    \/ \E k \in ReadKeys : Env_MustGet(k)
    \/ \E k \in SetKeys, v \in SetVals : Env_Set(k, v)
    \/ \E w \in MustSetInputs : Env_MustSet(w[1], w[2])
    \/ \E k \in ReadKeys, d \in Defaults : Get(k, d)
    \/ \E k \in ReadKeys : MustGet(k)
    \/ \E k \in SetKeys, v \in SetVals : Set(k, v)
    \/ \E w \in MustSetInputs : MustSet(w[1], w[2])

SpecMap == Init /\ [][NextMap]_vars

----------------------------------------------------------------------------
(* Seeding.  The OS environments a process can start in are wider here:    *)
(* GO_ENV and GOPATH may be undefined, and GO_ENV may be defined and       *)
(* empty, so that loadEnv looks up test.v and runs `go env GOPATH`.        *)

\* A value with an EQ in it, as in K=a=b.
StrAEB == <<"a", EQ, "b">>

SeedOsInits ==
    { [k \in Keys |-> CASE k = GO_ENV -> ge
                       [] k = GOPATH -> gp
                       [] k = KEY_K  -> kv
                       [] OTHER      -> Unset] :
        ge \in {Unset, EmptyStr, StrA}, gp \in {Unset, StrA},
        kv \in {Unset, StrA, StrAEB} }

SeedReadKeys == {GO_ENV, GOPATH, KEY_K}
SeedWrites == {<<GO_ENV, Unset>>, <<GO_ENV, StrA>>}

InitSeed ==
    \E o \in SeedOsInits, i \in {"Env", "Environment"} : \E x \in OutsideOf(i, <<>>, o) :
        Boot(i, o, x) /\ bound = Unbound

NextSeed ==
    \/ Env_Reload
    \/ Reload
    \/ \E k \in SeedReadKeys, d \in Defaults : Env_Get(k, d)
    \/ \E k \in SeedReadKeys : Env_MustGet(k)
    \/ \E k \in SeedReadKeys, d \in Defaults : Get(k, d)
    \/ \E k \in SeedReadKeys : MustGet(k)
    \/ \E w \in SeedWrites : External(w[1], w[2])

SpecSeed == InitSeed /\ [][NextSeed]_vars

----------------------------------------------------------------------------
(* Map() of the Environment engine while other goroutines call Set and Get *)
(* on keys of their own.  Environment.Map is not one step for them: it     *)
(* makes a Go map of its own and fills it from envMap.Range, which is      *)
(* sync.Map.Range: no key is visited twice, a key that is in the map for   *)
(* the whole call is visited, a key stored during the call may or may not  *)
(* be, and the value handed over for a key is the one stored when the key  *)
(* is visited.                                                             *)

\* `m := map[string]string{}` and the start of e.pairs.Range.
Map_Begin ==
    /\ impl = "Environment" /\ Running
    /\ ~scan.on
    /\ IF env.pairs = Nil
       THEN /\ last' = Panicked("Map", NoArg, NoArg)
            /\ UNCHANGED <<heap, held, scan>>
       ELSE LET id == Alloc((SavedMaps(stack) \ {held}) \cup {env.pairs})
            IN  /\ heap' = [heap EXCEPT ![id] = EmptyMap]
                /\ held' = id
                /\ scan' = [on |-> TRUE, seen |-> {},
                            must |-> {k \in Keys : MapLoad(Store, k).ok}]
                /\ UNCHANGED last
    /\ UNCHANGED <<impl, bound, os, env, stack>>

\* One call of the function given to Range: `m[key] = value`.
Map_Visit(k) ==
    /\ impl = "Environment" /\ Running
    /\ scan.on
    /\ k \notin scan.seen
    /\ MapLoad(Store, k).ok
    /\ heap' = [heap EXCEPT ![held] = [@ EXCEPT ![k] = MapLoad(Store, k).s]]
    /\ scan' = [scan EXCEPT !.seen = @ \cup {k}]
    /\ UNCHANGED <<impl, bound, held, os, env, stack, last>>

\* Range returns: it visited every key that was in the map all along.
RangeOver == scan.must \subseteq scan.seen

\* `return m`.
Map_Return ==
    /\ impl = "Environment" /\ Running
    /\ scan.on
    /\ RangeOver
    /\ scan' = Idle
    /\ last' = Call("Map", NoArg, NoArg, NoArg, NoErr, <<>>)
    /\ UNCHANGED <<impl, bound, held, os, heap, env, stack>>

\* The keys the other goroutines use: one sets KEY_K, one reads KEY_J.
NextScan ==
    \/ Map_Begin
    \/ \E k \in Keys : Map_Visit(k)
    \/ Map_Return
    \/ \E v \in SetVals : Set(KEY_K, v)
    \/ \E d \in Defaults : Get(KEY_J, d)
    \/ MustGet(KEY_J)

InitScan ==
    \E o \in OsInits : \E x \in OutsideOf("Environment", <<>>, o) :
        Boot("Environment", o, x) /\ bound = Unbound

SpecScan == InitScan /\ [][NextScan]_vars

----------------------------------------------------------------------------
(* Temp called in the body of Temp: one level deeper than elsewhere, with  *)
(* Set, Get and MustGet on one key in the bodies.                          *)

NestDepth == MaxDepth + 1

NextNest ==
    \/ Env_TempTo(NestDepth)
    \/ TempTo(NestDepth)
    \/ TempReturn
    \/ TempPanic
    \/ \E v \in SetVals : Env_Set(KEY_K, v)
    \/ \E v \in SetVals : Set(KEY_K, v)
    \/ \E d \in Defaults : Env_Get(KEY_K, d)
    \/ \E d \in Defaults : Get(KEY_K, d)
    \/ Env_MustGet(KEY_K)
    \/ MustGet(KEY_K)

SpecNest == Init /\ [][NextNest]_vars

----------------------------------------------------------------------------
(* Load around a value that only Set wrote: KEY_J is in no OS environment  *)
(* here and in none of the files loaded.                                   *)

LoadLists ==
    { <<>>, <<"a.env">>, <<"missing.env">>, <<"a.env", "missing.env", "b.env">> }

NextLoad ==
    \/ \E v \in SetVals : Env_Set(KEY_J, v)
    \/ \E v \in SetVals : Set(KEY_J, v)
    \/ \E fs \in LoadLists : Env_Load(fs)
    \/ \E fs \in LoadLists : Load(fs)
    \/ \E d \in Defaults : Env_Get(KEY_J, d)
    \/ \E d \in Defaults : Get(KEY_J, d)
    \/ Env_MustGet(KEY_J)
    \/ MustGet(KEY_J)
    \/ Env_Temp
    \/ Temp
    \/ TempReturn

SpecLoad == Init /\ [][NextLoad]_vars

----------------------------------------------------------------------------
(* GoPath() next to the store's GOPATH.                                    *)

\* Env.GoPath: e.Get("GOPATH", "").
Env_GoPath ==
    /\ impl = "Env" /\ Running
    /\ last' = Call("GoPath", NoArg, NoArg, Env_GetValue(Store, GOPATH, EmptyStr), NoErr, <<>>)
    /\ UNCHANGED <<impl, bound, held, scan, os, heap, env, stack>>

\* GoPath() of the Environment engine: the field e.goPath.
GoPath ==
    /\ impl = "Environment" /\ Running
    /\ last' = Call("GoPath", NoArg, NoArg, env.goPath, NoErr, <<>>)
    /\ UNCHANGED <<impl, bound, held, scan, os, heap, env, stack>>

NextGoPath ==
    \/ Env_GoPath
    \/ GoPath
    \/ Env_Get(GOPATH, EmptyStr)
    \/ Get(GOPATH, EmptyStr)
    \/ \E v \in SetVals : Env_Set(GOPATH, v)
    \/ \E v \in SetVals : Set(GOPATH, v)
    \/ \E v \in SetVals : Env_MustSet(GOPATH, v)
    \/ \E v \in SetVals : MustSet(GOPATH, v)
    \/ Env_Reload
    \/ Reload
    \/ Env_Temp
    \/ Temp
    \/ TempReturn

SpecGoPath == InitSeed /\ [][NextGoPath]_vars

----------------------------------------------------------------------------
(* Properties.  A step whose record last' names a call is that call: the   *)
(* unprimed variables are the state it was made in, the primed ones the    *)
(* state it returned in.  A call that panics leaves the record "panic".    *)

C2_GetDefault ==
    [][ last'.op = "Get" =>
           last'.ret = IF Store[last'.key] = Absent THEN last'.val
                       ELSE Store[last'.key] ]_vars

\* Get was given a non-empty default for a key stored with the empty string
\* and returned the empty string.
C2_Witness ==
    /\ last.op = "Get" /\ last.val = StrA
    /\ Store[last.key] = EmptyStr /\ last.ret = EmptyStr

\* C3: MustGet(k) returns an error exactly when k is absent from the current
\* store, and the stored value with no error when k is present, whatever
\* calls came before it.  (MustGet leaves the store as it is.)
C3_MustGetErrIffAbsent ==
    last.op = "MustGet" =>
        IF Store[last.key] = Absent THEN last.err = ENOTFOUND
        ELSE last.err = NoErr /\ last.ret = Store[last.key]

\* MustGet failed for a key the OS environment defines: the store decides.
C3_Witness ==
    /\ last.op = "MustGet" /\ last.err = ENOTFOUND
    /\ os[last.key] = StrA

\* C4: Get(k, d) does not change the store: a key that was absent is absent
\* after the call.
C4_GetDoesNotMutate ==
    [][ last'.op = "Get" => Store' = Store ]_vars

C6_TempRestores ==
    [][ last'.op = "TempReturn" => Store' = stack[Len(stack)].snap ]_vars

\* Temp has returned from a function that left its copy changed.
C6_Witness ==
    last.op = "TempReturn" /\ last.val = Changed

\* C7: Temp restores also when the function panics: the store the caller of
\* Temp sees once the panic reaches it is what Map() gave when Temp was
\* called.
C7_TempRestoresOnPanic ==
    [][ last'.op = "TempPanic" => Store' = stack[Len(stack)].snap ]_vars

\* The function panicked after it had changed its copy.
C7_Witness ==
    last.op = "TempPanic" /\ last.val = Changed

C10_FirstFileWins ==
    [][ (last'.op = "Load" /\ last'.files = <<"a.env", "b.env">>
            /\ last'.err = NoErr /\ os[KEY_K] = Unset /\ Store[KEY_K] = Absent)
           => Store'[KEY_K] = StrA ]_vars

\* C11: a variable the OS environment defines before Load(files) keeps its
\* value: after a Load that returns no error, the OS value of K and the
\* stored value of K are the value the OS gave K before the call, whatever
\* the files give for K.
C11_OsHasPriority ==
    [][ (last'.op = "Load" /\ last'.err = NoErr /\ os[KEY_K] # Unset)
           => os'[KEY_K] = os[KEY_K] /\ Store'[KEY_K] = os[KEY_K] ]_vars

C13_LoadNoDefaultFile ==
    [][ (last'.op = "Load" /\ last'.files = <<>>)
           => /\ last'.err = ENOENT => Store' = Store /\ os' = os
              /\ last'.err = NoErr => os'[KEY_K] = StrA /\ Store'[KEY_K] = StrA
              /\ last'.err \in {ENOENT, NoErr, EPKGS} ]_vars

\* Load() has failed for want of .env and the store still holds a key that
\* only Set wrote.
C13_Witness ==
    /\ last.op = "Load" /\ last.files = <<>> /\ last.err = ENOENT
    /\ Store[KEY_K] = StrA /\ os[KEY_K] = Unset

\* C14: immediately after Reload the store holds, GO_ENV apart, exactly the
\* variables the OS environment defines, with their OS values.
C14_ReloadReseeds ==
    [][ last'.op = "Reload" =>
           \A k \in Keys \ {GO_ENV} :
               Store'[k] = IF os'[k] = Unset THEN Absent ELSE os'[k] ]_vars

\* C15: Reload never fails: whatever the lookups it makes answer, it reports
\* no error and the engine has a store afterwards.
C15_ReloadNeverFails ==
    [][ last'.op = "Reload" => last'.err = NoErr /\ env'.pairs # Nil ]_vars

\* C16: no Get and no Set crashes, in any state the package can be in after
\* its initialization.
C16_GetSetNeverCrash ==
    last.op = "panic" => last.err \notin {"Get", "Set"}


\* C17: all package-level operations act on one store.  In particular, a
\* Set(k, v) made inside the body of a Temp call is seen by a Get(k, d) made
\* next: it returns v.
C17_OneStore ==
    [][ (stack # <<>> /\ last.op = "Set" /\ last'.op = "Get" /\ last'.key = last.key)
           => last'.ret = last.val ]_vars

\* C18: the store is swapped atomically for other threads at the entry of
\* Temp: while a Temp call is active, a Get or MustGet made by another thread
\* for a key that was present when Temp was entered, and that nothing wrote
\* since, reports the key present with its value.
C18_TempSwapAtomic ==
    (/\ stack # <<>>
     /\ last.op \in {"Get", "MustGet"}
     /\ stack[1].snap[last.key] # Absent)
        => last.err = NoErr /\ last.ret = stack[1].snap[last.key]

\* C19: Map() returns a copy.  The returned mapping holds the pairs of the
\* store; a write of the caller into it leaves the store as it was, so later
\* Get, MustGet and Map calls are not affected by it; and a later Set or
\* MustSet leaves the returned mapping as it was.
C19_MapIsCopy ==
    [][ /\ (last'.op = "Map" => heap'[held'] = Store /\ Store' = Store)
        /\ (last'.op = "write" => Store' = Store)
        /\ ((last'.op \in {"Set", "MustSet"} /\ held # Nil)
               => heap'[held] = heap[held]) ]_vars

C19_Witness ==
    /\ last.op = "write"
    /\ held # Nil
    /\ heap[held][last.key] # Store[last.key]

\* C20: after a Reload made while the running-as-test signal is present, the
\* store holds "test" under GO_ENV if the OS environment does not define
\* GO_ENV, and the OS value of GO_ENV if it does.
C20_TestModeInjection ==
    [][ (last'.op = "Reload" /\ last'.err = NoErr /\ last'.val = TestRun)
           => Store'[GO_ENV] = IF os'[GO_ENV] = Unset THEN StrTest ELSE os'[GO_ENV] ]_vars

\* C21: while goroutines call Set and Get on keys of their own and another
\* one runs Map(), no call crashes, and the mapping Map() returns is well
\* formed: every entry was put there by a visit of Range and has the value
\* that was stored for its key when it was visited, nothing else touches the
\* mapping while it is filled, and every key that no goroutine writes during
\* the call (GOPATH, GO_ENV) is in it with its stored value.
C21_MapWhileSetGet ==
    [][ /\ last'.op # "panic"
        /\ (scan.on /\ scan'.on) =>
               \A k \in Keys :
                   heap'[held][k] = IF k \in scan'.seen \ scan.seen
                                    THEN Store[k] ELSE heap[held][k]
        /\ (scan.on /\ ~scan'.on) =>
               /\ heap'[held] = heap[held]
               /\ \A k \in Keys : heap[held][k] # Absent => k \in scan.seen
               /\ \A k \in {GOPATH, GO_ENV} : heap[held][k] = Store[k] ]_vars

\* C22: nested Temp calls follow a stack discipline.  When a Temp call made
\* in the body of another one is over (its function returned or panicked),
\* the store is the working copy of the enclosing body, not the store of
\* before the outer call, with the contents it had just before the inner
\* call; when the outermost Temp call is over, the store is the one of
\* before it, with the contents it had then.
C22_TempStack ==
    [][ last'.op \in {"TempReturn", "TempPanic"} =>
           LET n == Len(stack)
           IN  /\ stack' = SubSeq(stack, 1, n - 1)
               /\ env' = stack[n].oenv
               /\ Store' = stack[n].snap
               /\ n > 1 => /\ env'.pairs # stack[1].oenv.pairs
                           /\ stack'[1] = stack[1] ]_vars

\* An inner Temp call whose body changed its copy has returned into an outer
\* body that had changed its own copy before: the outer change is there.
C22_Witness ==
    /\ Len(stack) = 1
    /\ last.op = "TempReturn" /\ last.val = Changed
    /\ Store # stack[1].snap

\* C23: the store is a snapshot of the OS environment.  A change of an OS
\* variable made outside the package leaves the store as it was; the MustGet
\* or Get of that variable made next answers from the store (the value
\* captured when it was seeded, or not found); and the Reload made next
\* brings the new OS value into the store.
C23_Snapshot ==
    [][ /\ (last'.op = "external" => Store' = Store)
        /\ ((last.op = "external" /\ last'.op = "MustGet" /\ last'.key = last.key)
               => IF Store[last.key] = Absent THEN last'.err = ENOTFOUND
                  ELSE last'.err = NoErr /\ last'.ret = Store[last.key])
        /\ ((last.op = "external" /\ last'.op = "Get" /\ last'.key = last.key)
               => last'.ret = IF Store[last.key] = Absent THEN last'.val
                              ELSE Store[last.key])
        /\ ((last.op = "external" /\ last.val # Unset
                /\ last'.op = "Reload" /\ last'.err = NoErr)
               => Store'[last.key] = last.val) ]_vars

\* MustGet returned the value GO_ENV was seeded with, the empty string,
\* while the OS environment has another one by now.
C23_Witness ==
    /\ last.op = "MustGet" /\ last.key = GO_ENV
    /\ last.err = NoErr /\ last.ret = EmptyStr
    /\ os[GO_ENV] = StrA

\* The store a seeding from the OS environment o gives (GO_ENV is defined in
\* every OS environment of SpecLoad and no value has an EQ in it).
C24_Seeded(o) == [k \in Keys |-> IF o[k] = Unset THEN Absent ELSE o[k]]

\* C24: every successful Load replaces the store by a new one seeded from the
\* OS environment: a key that only Set wrote is gone, the Get of KEY_J made
\* next returns its default, also inside the body of Temp; and the exit of
\* Temp still gives back the store of before Temp.
C24_LoadReplaces ==
    [][ /\ ((last'.op = "Load" /\ last'.err = NoErr)
               => Store' = C24_Seeded(os') /\ Store'[KEY_J] = Absent)
        /\ ((last.op = "Load" /\ last.err = NoErr /\ last'.op = "Get")
               => last'.ret = last'.val)
        /\ (last'.op = "TempReturn" => Store' = stack[Len(stack)].snap) ]_vars

\* Inside Temp a Load has succeeded and dropped KEY_J, which Set had written
\* before Temp and which Temp will give back.
C24_Witness ==
    /\ stack # <<>>
    /\ stack[Len(stack)].snap[KEY_J] = StrA
    /\ last.op = "Load" /\ last.err = NoErr
    /\ Store[KEY_J] = Absent

\* C25: a file of Load(files) that cannot be accessed ends the call with the
\* state of just before that file.  When it is the first file, the store and
\* the OS environment are exactly as before the call, KEY_J that only Set
\* wrote included.  When it comes after a.env, what a.env merged stays: the
\* OS environment is the one of before the call with K of a.env in it, the
\* store is the one seeded after a.env, and nothing of b.env is there.
C25_AccessFailure ==
    [][ /\ (last'.op = "Load" /\ last'.files = <<"missing.env">>)
              => last'.err = ENOENT /\ Store' = Store /\ os' = os /\ env' = env
        /\ (last'.op = "Load" /\ last'.files = <<"a.env", "missing.env", "b.env">>
                /\ last'.err = ENOENT)
              => /\ os' = [os EXCEPT ![KEY_K] = StrA]
                 /\ Store' = C24_Seeded(os') ]_vars

\* Load(missing.env) has failed in a state where KEY_J, which only Set wrote,
\* is in the store.
C25_Witness ==
    /\ last.op = "Load" /\ last.files = <<"missing.env">> /\ last.err = ENOENT
    /\ Store[KEY_J] = StrA

\* C26: GoPath() agrees with the store's GOPATH: whatever calls were made
\* before, it returns what Get("GOPATH", "") returns, the value stored under
\* GOPATH, or "" when there is none.
C26_GoPathAgrees ==
    [][ last'.op = "GoPath" =>
           last'.ret = IF Store[GOPATH] = Absent THEN EmptyStr ELSE Store[GOPATH] ]_vars

C28_SeedFaithful ==
    [][ /\ ((last'.op = "Reload" /\ last'.err = NoErr)
               => \A k \in Keys : os'[k] # Unset => Store'[k] = os'[k])
        /\ ((last.op = "Reload" /\ last.err = NoErr /\ last'.op = "Get"
                /\ os[last'.key] # Unset)
               => last'.ret = os[last'.key]) ]_vars
====
